---- MODULE Spec2Model ----
(***************************************************************************)
(* Model of the scale dashboard (tovam/scaleui).                           *)
(*                                                                         *)
(*   SpecPoll  the usePolling hook of the tabbed application and the       *)
(*             time-windowed buffers it feeds (BatteryPage,                *)
(*             BasicCalibrationPage, AdvancedCalibrationPage).             *)
(*   SpecMain  the unguarded 1-second pollers of main.jsx (BatteryPage,    *)
(*             CalibratePage) and their chart buffers.                     *)
(*   SpecCal   the calibration point list, the zero weight and the fit of  *)
(*             AdvancedCalibrationPage.                                    *)
(*   SpecCalList  the calibration point list under addCalPoint and         *)
(*             removeCalPoint alone.                                       *)
(*   SpecFit   the point list and its fit over a wider range of readings.  *)
(*   SpecPollLive  usePolling with a ticking timer and settling calls.     *)
(*   SpecChart the main.jsx chart arrays near their cap of 20 entries.     *)
(*   SpecEdit  the calibration edit page (CalibratePage of main.jsx,       *)
(*             BasicCalibrationPage): edit fields, simulator, handlers.    *)
(*   SpecEditSet  the edit fields under typing, polls and                  *)
(*             handleSetCalibration alone.                                 *)
(*                                                                         *)
(* Numbers shown with toFixed(3) are kept as integers counting             *)
(* thousandths.                                                            *)
(***************************************************************************)
EXTENDS Integers, Sequences, FiniteSets, TLC

VARIABLES
    \* ---- usePolling pages (tabbed application) ----
    activeTab,    \* App.activeTab
    inst,         \* number of the mounted page instance (0 before any polling page)
    inProgress,   \* usePolling: inProgress.current of the mounted instance
    pending,      \* apiCall promises not yet settled: [inst, id]
    started,      \* number of apiCall() invocations so far
    dropped,      \* number of ticks that found inProgress.current set
    data,         \* usePolling: data
    timestamp,    \* usePolling: timestamp
    clock,        \* Date.now()
    buffer,       \* plotData (battery, basicCalib) or rawBuffer (advCalib)
    meanRaw,      \* AdvancedCalibrationPage.meanRaw
    \* ---- main.jsx pollers ----
    mTab,         \* App.activeTab
    mInst,        \* number of the mounted page instance
    mPending,     \* poll requests issued and not yet answered: [inst, id]
    mIssued,      \* number of poll requests issued (the id of the latest)
    mChart,       \* chart.data.datasets[0].data of the mounted page, each
                  \* sample named by the id of its request
    mLabels,      \* chart.data.labels of the mounted page, each label named
                  \* by the id of the request whose response it stamps
    mDestroyed,   \* samples pushed into (and chart.update() called on) the
                  \* chart of a page after its unmount: [inst, id]
    \* ---- AdvancedCalibrationPage calibration points ----
    zeroWeight,   \* input string
    calPoints,    \* sequence of [raw, actual]
    pointRaw,     \* input string
    pointActual,  \* input string
    fitResults,   \* null or [scale, offset]
    logPlotData,  \* sequence of [raw, actual]
    lastOp,       \* the handler that ran last and what it signalled
    \* ---- calibration edit page (CalibratePage / BasicCalibrationPage) ----
    page,             \* which of the two components is mounted
    calData,          \* [current_scale, current_offset] as last received
    newScale,         \* edit field: a typed string or a value of the device
    newOffset,        \* edit field: a typed string or a value of the device
    rawSim,           \* simulator input string
    simulatedWeight,  \* null or the weight shown, in thousandths
    message,          \* message shown
    requests,         \* requests of the handlers not yet answered:
                      \* [id, kind, fillScale, fillOffset]
    \* ---- HomePage ----
    scaleData,        \* [weight, battery] as last stored (both absent: {})
    statusIcon,       \* 'green' or 'red'
    hPending,         \* requests not yet answered: [id, kind]
    hIssued           \* number of requests issued

pollVars == <<activeTab, inst, inProgress, pending, started, dropped, data,
              timestamp, clock, buffer, meanRaw>>
mainVars == <<mTab, mInst, mPending, mIssued, mChart, mLabels, mDestroyed>>
calVars  == <<zeroWeight, calPoints, pointRaw, pointActual, fitResults,
              logPlotData, lastOp>>
editVars == <<page, calData, newScale, newOffset, rawSim, simulatedWeight,
              message, requests>>
homeVars == <<scaleData, statusIcon, hPending, hIssued>>
vars     == <<pollVars, mainVars, calVars, editVars, homeVars>>

----------------------------------------------------------------------------
\* Bounds of the model.
MaxCalls  == 3      \* apiCall() invocations explored
MaxMounts == 2      \* tab switches (page mounts) in a run
MaxTicks  == 3      \* poll requests issued by the main.jsx pages
MaxPoints == 3      \* calibration points held at once

\* Program constants.
MAX_PLOT_DURATION == 300000
MEAN_WINDOW       == 10000
CHART_CAP         == 20
LOW_BATTERY       == 31     \* 3.1 V, in tenths of a volt

\* JavaScript null / a value that is present.
Null    == <<>>
Some(x) == <<x>>
Val(o)  == o[1]

----------------------------------------------------------------------------
\* usePolling and the buffers it feeds.

PollTabs == {"battery", "basicCalib", "advCalib"}
Tabs     == {"home"} \cup PollTabs

\* The retention window of the mounted page's buffer.
Window(tab) == IF tab = "advCalib" THEN MEAN_WINDOW ELSE MAX_PLOT_DURATION

\* Sample values delivered by the device (integer sensor counts).
Values == {10, 20, 30}
\* The polled field of a response: absent, or a number.
Fields == {Null} \cup {Some(v) : v \in Values}
\* Milliseconds elapsed between two handled responses.
Deltas(tab) == {0, Window(tab) \div 2, Window(tab), Window(tab) + 1}

\* the updater without its filter
FilterWindowKeepsAll(s, now, window) == s

\* eviction from the newest end: when the oldest sample is out of the window
\* the newest one is dropped
FilterWindowEvictsNewest(s, now, window) ==
    IF s # <<>> /\ now - Head(s).time > window
    THEN SubSeq(s, 1, Len(s) - 1)
    ELSE s

\* newData.filter(d => now - d.time <= window)
RECURSIVE FilterWindow(_, _, _)
FilterWindow(s, now, window) ==
    IF s = <<>> THEN <<>>
    ELSE LET rest == FilterWindow(Tail(s), now, window)
         IN  IF now - Head(s).time <= window THEN <<Head(s)>> \o rest ELSE rest

\* setPlotData / setRawBuffer updater: append, then keep the window.
InsertSample(prev, now, field, window) ==
    FilterWindow(Append(prev, [time |-> now, value |-> field]), now, window)

\* Whether the page's data effect inserts a sample for this response.
Inserts(tab, field) ==
    IF tab = "basicCalib" THEN TRUE ELSE field # Null

\* rawBuffer.reduce((acc, pt) => acc + pt.value, 0)
RECURSIVE SumValues(_)
SumValues(s) == IF s = <<>> THEN 0 ELSE Val(Head(s).value) + SumValues(Tail(s))

\* (num / den).toFixed(3) for num >= 0, den > 0, in thousandths:
\* the nearest thousandth, the larger one on a tie.
ToFixed3(num, den) == (2000 * num + den) \div (2 * den)

\* the mean effect reading the buffer of the previous render (all but the
\* newest sample)
MeanEffectDropsNewest(buf, old) ==
    IF Len(buf) > 1
    THEN Some(ToFixed3(SumValues(SubSeq(buf, 1, Len(buf) - 1)), Len(buf) - 1))
    ELSE old

\* the mean effect without its length test, an empty sum shown as 0.000
MeanEffectZeroOnEmpty(buf, old) ==
    IF Len(buf) > 0 THEN Some(ToFixed3(SumValues(buf), Len(buf))) ELSE Some(0)

\* The mean effect: recomputed for a non-empty buffer, left alone otherwise.
MeanEffect(buf, old) ==
    IF Len(buf) > 0 THEN Some(ToFixed3(SumValues(buf), Len(buf))) ELSE old

\* {meanRaw !== null ? meanRaw : 'Calculating...'}
MeanDisplay(m) ==
    IF m # Null THEN [kind |-> "num", milli |-> Val(m)]
    ELSE [kind |-> "Calculating...", milli |-> 0]

PendingOf(k) == {c \in pending : c.inst = k}

\* the interval callback without its guard
TickStartsAlways == TRUE

\* The guard of the interval callback: if (!inProgress.current)
TickStarts == ~inProgress

\* setInterval callback of usePolling.
Tick ==
    /\ activeTab \in PollTabs
    /\ IF TickStarts
       THEN /\ started < MaxCalls
            /\ inProgress' = TRUE
            /\ pending' = pending \cup {[inst |-> inst, id |-> started + 1]}
            /\ started' = started + 1
            /\ UNCHANGED dropped
       ELSE /\ dropped < MaxCalls
            /\ dropped' = dropped + 1
            /\ UNCHANGED <<inProgress, pending, started>>
    /\ UNCHANGED <<activeTab, inst, data, timestamp, clock, buffer, meanRaw>>
    /\ UNCHANGED <<mainVars, calVars, editVars, homeVars>>

\* .then of apiCall() for the mounted instance, followed by the page's data
\* effect and (advCalib) the mean effect.
Resolve(c, field, d) ==
    /\ c \in pending /\ c.inst = inst
    /\ pending' = pending \ {c}
    /\ clock' = clock + d
    /\ data' = Some(field)
    /\ timestamp' = clock'
    /\ inProgress' = FALSE
    /\ buffer' = IF Inserts(activeTab, field)
                 THEN InsertSample(buffer, clock', field, Window(activeTab))
                 ELSE buffer
    /\ meanRaw' = IF activeTab = "advCalib" /\ Inserts(activeTab, field)
                  THEN MeanEffect(buffer', meanRaw)
                  ELSE meanRaw
    /\ UNCHANGED <<activeTab, inst, started, dropped>>
    /\ UNCHANGED <<mainVars, calVars, editVars, homeVars>>

\* the .catch without inProgress.current = false
RejectKeepsGuard(c) ==
    /\ c \in pending /\ c.inst = inst
    /\ pending' = pending \ {c}
    /\ UNCHANGED <<activeTab, inst, inProgress, started, dropped, data,
                   timestamp, clock, buffer, meanRaw>>
    /\ UNCHANGED <<mainVars, calVars, editVars, homeVars>>

\* .catch of apiCall() for the mounted instance.
Reject(c) ==
    /\ c \in pending /\ c.inst = inst
    /\ pending' = pending \ {c}
    /\ inProgress' = FALSE
    /\ UNCHANGED <<activeTab, inst, started, dropped, data, timestamp, clock,
                   buffer, meanRaw>>
    /\ UNCHANGED <<mainVars, calVars, editVars, homeVars>>

\* A call of an unmounted instance settles: its state setters and its ref
\* belong to the instance that is gone.
SettleOrphan(c) ==
    /\ c \in pending /\ c.inst # inst
    /\ pending' = pending \ {c}
    /\ UNCHANGED <<activeTab, inst, inProgress, started, dropped, data,
                   timestamp, clock, buffer, meanRaw>>
    /\ UNCHANGED <<mainVars, calVars, editVars, homeVars>>

\* Navigation: the page of the old tab is unmounted, the new one mounted with
\* fresh state and a fresh ref; the effects of the new page run once on mount
\* (the data effect finds data null, the mean effect an empty buffer).
SetActiveTab(tab) ==
    /\ tab \in Tabs /\ tab # activeTab
    /\ inst < MaxMounts
    /\ activeTab' = tab
    /\ inst' = inst + 1
    /\ inProgress' = FALSE
    /\ data' = Null
    /\ timestamp' = clock
    /\ buffer' = <<>>
    /\ meanRaw' = IF tab = "advCalib" THEN MeanEffect(buffer', Null) ELSE Null
    /\ UNCHANGED <<pending, started, dropped, clock>>
    /\ UNCHANGED <<mainVars, calVars, editVars, homeVars>>

----------------------------------------------------------------------------
\* main.jsx: BatteryPage and CalibratePage poll with a bare setInterval.

MainPollTabs == {"battery", "calibrate"}
MainTabs     == {"home"} \cup MainPollTabs

MainPendingOf(k) == {c \in mPending : c.inst = k}

\* the push shifting the labels alone
ChartPushShiftsLabelsOnly(chart, label, v) ==
    LET labels == Append(chart.labels, label)
        series == Append(chart.data, v)
    IN  IF Len(labels) > CHART_CAP
        THEN [labels |-> Tail(labels), data |-> series]
        ELSE [labels |-> labels, data |-> series]

\* chart.data.labels.push(now); chart.data.datasets[0].data.push(v);
\* if (chart.data.labels.length > 20) { labels.shift(); data.shift(); }
ChartPush(chart, label, v) ==
    LET labels == Append(chart.labels, label)
        series == Append(chart.data, v)
    IN  IF Len(labels) > CHART_CAP
        THEN [labels |-> Tail(labels), data |-> Tail(series)]
        ELSE [labels |-> labels, data |-> series]

\* What the interval callback (BatteryPage) / fetchCalibration (CalibratePage)
\* does to the set of outstanding requests: fetch() is called unconditionally.
IssueFetch(outstanding, k, id) == outstanding \cup {[inst |-> k, id |-> id]}

\* setInterval callback, every 1000 ms.
MainTick ==
    /\ mTab \in MainPollTabs
    /\ mIssued < MaxTicks
    /\ mIssued' = mIssued + 1
    /\ mPending' = IssueFetch(mPending, mInst, mIssued + 1)
    /\ UNCHANGED <<mTab, mInst, mChart, mLabels, mDestroyed>>
    /\ UNCHANGED <<pollVars, calVars, editVars, homeVars>>

\* CalibratePage: the Refresh button, and the .then of handleTare and of
\* handleSetCalibration, call fetchCalibration() as well.
ManualFetchCalibration ==
    /\ mTab = "calibrate"
    /\ mIssued < MaxTicks
    /\ mIssued' = mIssued + 1
    /\ mPending' = IssueFetch(mPending, mInst, mIssued + 1)
    /\ UNCHANGED <<mTab, mInst, mChart, mLabels, mDestroyed>>
    /\ UNCHANGED <<pollVars, calVars, editVars, homeVars>>

\* .then of a poll request of the mounted page: the sample is pushed.
MainResponse(c) ==
    /\ c \in mPending /\ c.inst = mInst
    /\ mPending' = mPending \ {c}
    /\ LET chart == ChartPush([labels |-> mLabels, data |-> mChart], c.id, c.id)
       IN  /\ mLabels' = chart.labels
           /\ mChart' = chart.data
    /\ UNCHANGED <<mTab, mInst, mIssued, mDestroyed>>
    /\ UNCHANGED <<pollVars, calVars, editVars, homeVars>>

\* What the .then of a request does when its page is gone: the cleanup has
\* destroyed the chart but left chartInstance.current set, so the test
\* if (chartInstance.current) passes and the sample is pushed and
\* chart.update() called.
OrphanPush(gone, c) == Append(gone, c)

\* .then of a poll request whose page has been unmounted.
MainOrphanResponse(c) ==
    /\ c \in mPending /\ c.inst # mInst
    /\ mPending' = mPending \ {c}
    /\ mDestroyed' = OrphanPush(mDestroyed, c)
    /\ UNCHANGED <<mTab, mInst, mIssued, mChart, mLabels>>
    /\ UNCHANGED <<pollVars, calVars, editVars, homeVars>>

\* .catch of a poll request (of the mounted page or of one that is gone).
MainDrop(c) ==
    /\ c \in mPending
    /\ mPending' = mPending \ {c}
    /\ UNCHANGED <<mTab, mInst, mIssued, mChart, mLabels, mDestroyed>>
    /\ UNCHANGED <<pollVars, calVars, editVars, homeVars>>

\* Navigation in main.jsx: the cleanup of the old page clears its interval
\* and destroys its chart; the new page starts with an empty chart.
MainSetActiveTab(tab) ==
    /\ tab \in MainTabs /\ tab # mTab
    /\ mInst < MaxMounts
    /\ mTab' = tab
    /\ mInst' = mInst + 1
    /\ mChart' = <<>>
    /\ mLabels' = <<>>
    /\ UNCHANGED <<mPending, mIssued, mDestroyed>>
    /\ UNCHANGED <<pollVars, calVars, editVars, homeVars>>

----------------------------------------------------------------------------
\* AdvancedCalibrationPage: calibration points and fit.

\* JavaScript numbers: NaN, or a finite integer n.
NaN      == <<>>
Num(n)   == <<n>>
IsNaN(x) == x = NaN

\* What a type="number" input reports as its value: "" or a numeric string.
RawStrings    == {"", "0", "1"}
ActualStrings == {"", "0", "1"}
ZeroStrings   == {"", "0.0", "1"}

\* The value a type="number" input hands to onChange for the text typed into
\* it: the text when it is a number, "" otherwise.
NumberInputValue(text) ==
    IF text \in {"0", "0.0", "1", "2", "3"} THEN text ELSE ""

\* What the operator has typed into the raw and the actual input when Add is
\* pressed: two numbers, or at least one input empty or not a number.
AddInputs ==
    {<<r, a>> : r \in RawStrings \ {""}, a \in ActualStrings \ {""}}
        \cup {<<"", "">>, <<"1", "">>, <<"", "1">>, <<"abc", "1">>, <<"1", "abc">>}

\* A wider range of readings for the fit: raw counts and reference weights
\* typed into the two inputs.
FitRawStrings    == {"0", "1", "2", "3"}
FitActualStrings == {"0", "1", "3"}

\* parseFloat
ParseFloat(s) ==
    CASE s = "0"   -> Num(0)
      [] s = "0.0" -> Num(0)
      [] s = "1"   -> Num(1)
      [] s = "2"   -> Num(2)
      [] s = "3"   -> Num(3)
      [] OTHER     -> NaN

\* a !== b on numbers
StrictNe(a, b) == IsNaN(a) \/ IsNaN(b) \/ a # b

\* prev.filter((_, i) => i !== index), index counted from 0
RECURSIVE FilterIndexFrom(_, _, _)
FilterIndexFrom(s, i, index) ==
    IF s = <<>> THEN <<>>
    ELSE IF i # index
         THEN <<Head(s)>> \o FilterIndexFrom(Tail(s), i + 1, index)
         ELSE FilterIndexFrom(Tail(s), i + 1, index)

\* prev.splice(index, 1) in place of the filter: a negative index counts from
\* the end.
FilterIndexSplice(s, index) ==
    LET at == IF index < 0 THEN Len(s) + index ELSE index
    IN  FilterIndexFrom(s, 0, IF at < 0 THEN 0 ELSE at)

\* the filter with positions counted from 1
FilterIndexOneBased(s, index) == FilterIndexFrom(s, 1, index)

FilterIndex(s, index) == FilterIndexFrom(s, 0, index)

\* reduce((sum, x) => sum + x, 0)
RECURSIVE Sum(_)
Sum(xs) == IF xs = <<>> THEN 0 ELSE Head(xs) + Sum(Tail(xs))

\* The four sums of the fit effect, over points without NaN.
SumX(pts)  == Sum([i \in 1..Len(pts) |-> Val(pts[i].raw)])
SumY(pts)  == Sum([i \in 1..Len(pts) |-> Val(pts[i].actual)])
SumXY(pts) == Sum([i \in 1..Len(pts) |-> Val(pts[i].raw) * Val(pts[i].actual)])
SumX2(pts) == Sum([i \in 1..Len(pts) |-> Val(pts[i].raw) * Val(pts[i].raw)])

HasNaN(pts) == \E i \in 1..Len(pts) : IsNaN(pts[i].raw) \/ IsNaN(pts[i].actual)

\* n * sumX2 - sumX * sumX
Denominator(pts) ==
    Len(pts) * SumX2(pts) - SumX(pts) * SumX(pts)

\* n * sumXY - sumX * sumY  (slope = SlopeNum / Denominator)
SlopeNum(pts) ==
    Len(pts) * SumXY(pts) - SumX(pts) * SumY(pts)

Abs(x) == IF x < 0 THEN -x ELSE x
Sign(x) == IF x < 0 THEN -1 ELSE IF x > 0 THEN 1 ELSE 0

\* (p / q).toFixed(3) in thousandths, q # 0: nearest, ties away from zero.
ToFixed3Signed(p, q) == Sign(p) * Sign(q) * ToFixed3(Abs(p), Abs(q))

Shown(kind, milli) == [kind |-> kind, milli |-> milli]

\* the fit reporting the slope and the intercept themselves
ProposedFitNoInverse(pts) ==
    LET n  == Len(pts)
        D  == Denominator(pts)
        N  == SlopeNum(pts)
        sX == SumX(pts)
        sY == SumY(pts)
    IN  IF N # 0
        THEN [scale  |-> Shown("num", ToFixed3Signed(N, D)),
              offset |-> Shown("num", ToFixed3Signed(sY * D - N * sX, n * D))]
        ELSE [scale |-> Shown("N/A", 0), offset |-> Shown("N/A", 0)]

\* the fit without its slope test: 1 / 0 and -intercept / 0 shown by toFixed
ProposedFitNoSlopeTest(pts) ==
    LET n  == Len(pts)
        D  == Denominator(pts)
        N  == SlopeNum(pts)
        sX == SumX(pts)
        sY == SumY(pts)
    IN  IF N # 0
        THEN [scale  |-> Shown("num", ToFixed3Signed(D, N)),
              offset |-> Shown("num", ToFixed3Signed(-(sY * D - N * sX), n * N))]
        ELSE [scale  |-> Shown("Infinity", 0),
              offset |-> Shown(IF sY = 0 THEN "NaN" ELSE "Infinity", 0)]

\* The body of the fit effect for a list of 2 or more points whose
\* denominator is not 0: {scale, offset} as displayed.
\*   slope     = SlopeNum / Denominator
\*   intercept = (sumY - slope * sumX) / n
\*   scale     = 1 / slope            offset = -intercept / slope
ProposedFit(pts) ==
    LET n  == Len(pts)
        D  == Denominator(pts)
        N  == SlopeNum(pts)
        sX == SumX(pts)
        sY == SumY(pts)
    IN  IF N # 0
        THEN [scale  |-> Shown("num", ToFixed3Signed(D, N)),
              offset |-> Shown("num", ToFixed3Signed(-(sY * D - N * sX), n * N))]
        ELSE [scale |-> Shown("N/A", 0), offset |-> Shown("N/A", 0)]

\* The points the fit effect reads.
FitInput(pts, zero) == pts

\* useEffect(..., [calPoints]): the new fitResults.
FitEffect(pts, zero, old) ==
    LET input == FitInput(pts, zero)
    IN  IF Len(input) >= 2
        THEN IF HasNaN(input)
             THEN Some([scale |-> Shown("NaN", 0), offset |-> Shown("NaN", 0)])
             ELSE IF Denominator(input) # 0
                  THEN Some(ProposedFit(input))
                  ELSE old
        ELSE Null

\* What the handler that ran last did; no handler of the page throws, returns
\* a value or sets a message, so nothing is ever signalled.
Op(kind) == [kind |-> kind, error |-> "none"]

\* onChange of the zero weight input.
SetZeroWeight(s) ==
    /\ s \in ZeroStrings /\ s # zeroWeight
    /\ zeroWeight' = s
    /\ UNCHANGED <<calPoints, pointRaw, pointActual, fitResults, logPlotData, lastOp>>
    /\ UNCHANGED <<pollVars, mainVars, editVars, homeVars>>

\* the guard testing one input only
AddRejectsRawOnly(raw, actual) == raw = ""

\* if (pointRaw === '' || pointActual === '') return;
AddRejects(raw, actual) == raw = "" \/ actual = ""

\* The operator fills the two inputs (onChange) and presses Add; the fit
\* effect follows the new calPoints.
AddCalPoint(textRaw, textActual) ==
    LET typedRaw    == NumberInputValue(textRaw)
        typedActual == NumberInputValue(textActual)
    IN
    /\ Len(calPoints) < MaxPoints
    /\ IF AddRejects(typedRaw, typedActual)
       THEN /\ pointRaw' = typedRaw
            /\ pointActual' = typedActual
            /\ lastOp' = Op("addRejected")
            /\ UNCHANGED <<calPoints, logPlotData, fitResults>>
       ELSE LET newPoint == [raw |-> ParseFloat(typedRaw),
                             actual |-> ParseFloat(typedActual)]
            IN  /\ calPoints' = Append(calPoints, newPoint)
                /\ logPlotData' =
                      IF StrictNe(ParseFloat(typedActual), ParseFloat(zeroWeight))
                      THEN Append(logPlotData, newPoint)
                      ELSE logPlotData
                /\ pointRaw' = ""
                /\ pointActual' = ""
                /\ fitResults' = FitEffect(calPoints', zeroWeight, fitResults)
                /\ lastOp' = Op("add")
    /\ UNCHANGED zeroWeight
    /\ UNCHANGED <<pollVars, mainVars, editVars, homeVars>>

\* Indexes removeCalPoint is tried with: every position of the list, and the
\* two nearest indexes outside it.
RemoveIndexes == -1 .. MaxPoints

\* removeCalPoint(index), with the fit effect that follows the new calPoints.
RemoveCalPoint(index) ==
    /\ calPoints' = FilterIndex(calPoints, index)
    /\ logPlotData' = FilterIndex(logPlotData, index)
    /\ fitResults' = FitEffect(calPoints', zeroWeight, fitResults)
    /\ lastOp' = Op(IF index \in 0 .. Len(calPoints) - 1
                    THEN "remove" ELSE "removeOutOfRange")
    /\ UNCHANGED <<zeroWeight, pointRaw, pointActual>>
    /\ UNCHANGED <<pollVars, mainVars, editVars, homeVars>>

----------------------------------------------------------------------------
\* The calibration edit page: CalibratePage (main.jsx) and
\* BasicCalibrationPage (tabbed application).

EditPages == {"CalibratePage", "BasicCalibrationPage"}

\* JavaScript values held by the edit fields: a string (typed into the input)
\* or a number (a field of the device's JSON).
JsString(t) == [type |-> "string", text |-> t, num |-> 0]
JsNumber(n) == [type |-> "number", text |-> "", num |-> n]

\* !v
Falsy(v) == IF v.type = "string" THEN v.text = "" ELSE v.num = 0

\* parseFloat(v): a number is converted to its string first.
ParseFloatOf(v) == IF v.type = "string" THEN ParseFloat(v.text) ELSE Num(v.num)

\* What the device answers to /api/scale/raw: current_scale, current_offset.
DeviceData ==
    {[current_scale |-> JsNumber(sc), current_offset |-> JsNumber(off)] :
        sc \in {2}, off \in {0, 1}}

\* Texts typed into the scale, the offset and the simulator input.
ScaleTexts  == {"", "0", "0.0", "2"}
OffsetTexts == {"", "0", "1"}
RawSimTexts == {"", "0", "3"}

\* simulateWeight(raw, scale, offset): null, or ((r - o) / s).toFixed(3)
SimulateWeight(raw, scale, offset) ==
    IF Falsy(raw) \/ Falsy(scale) \/ Falsy(offset)
    THEN Null
    ELSE LET r == ParseFloatOf(raw)
             sc == ParseFloatOf(scale)
             o == ParseFloatOf(offset)
         IN  IF IsNaN(r) \/ IsNaN(sc) \/ IsNaN(o) \/ sc = Num(0)
             THEN Null
             ELSE Some(ToFixed3Signed(Val(r) - Val(o), Val(sc)))

\* The value of an edit field that the handler of a periodic poll response
\* reads.  CalibratePage: the interval holds the fetchCalibration of the first
\* render, whose newScale and newOffset are ''.  BasicCalibrationPage: the
\* data effect of the current render.
PollSeen(p, current) == IF p = "CalibratePage" THEN JsString("") ELSE current

\* Whether the response of a fetchCalibration() called by a handler writes an
\* edit field.  CalibratePage: if the field was '' in the render of the click.
\* BasicCalibrationPage: always.
FetchFills(p, current) ==
    IF p = "CalibratePage" THEN current = JsString("") ELSE TRUE

\* the validation of handleSetCalibration comparing the text
InvalidScaleTextZero(scale) == scale = JsString("0")

\* parseFloat(newScale) === 0
InvalidScale(scale) == ParseFloatOf(scale) = Num(0)

\* The chart of the mounted edit page after a handled response: CalibratePage
\* pushes into its chart; BasicCalibrationPage plots the buffer fed by
\* usePolling.
EditChart(id) ==
    IF page = "CalibratePage"
    THEN ChartPush([labels |-> mLabels, data |-> mChart], id, id)
    ELSE [labels |-> mLabels, data |-> mChart]

NewRequest(kind) ==
    [id |-> mIssued + 1, kind |-> kind,
     fillScale |-> FetchFills(page, newScale),
     fillOffset |-> FetchFills(page, newOffset)]

\* onChange of the scale input, with the simulator effect.
SetNewScale(text) ==
    /\ newScale' = JsString(NumberInputValue(text))
    /\ newScale' # newScale
    /\ simulatedWeight' = SimulateWeight(JsString(rawSim), newScale', newOffset)
    /\ UNCHANGED <<page, calData, newOffset, rawSim, message, requests>>
    /\ UNCHANGED <<pollVars, mainVars, calVars, homeVars>>

\* onChange of the offset input, with the simulator effect.
SetNewOffset(text) ==
    /\ newOffset' = JsString(NumberInputValue(text))
    /\ newOffset' # newOffset
    /\ simulatedWeight' = SimulateWeight(JsString(rawSim), newScale, newOffset')
    /\ UNCHANGED <<page, calData, newScale, rawSim, message, requests>>
    /\ UNCHANGED <<pollVars, mainVars, calVars, homeVars>>

\* onChange of the simulator input, with the simulator effect.
SetRawSim(text) ==
    /\ rawSim' = NumberInputValue(text)
    /\ rawSim' # rawSim
    /\ simulatedWeight' = SimulateWeight(JsString(rawSim'), newScale, newOffset)
    /\ UNCHANGED <<page, calData, newScale, newOffset, message, requests>>
    /\ UNCHANGED <<pollVars, mainVars, calVars, homeVars>>

\* The response of a periodic poll is handled (CalibratePage: the .then of
\* the interval's fetchCalibration; BasicCalibrationPage: the data effect).
PollResponse(dev) ==
    /\ mIssued < MaxTicks
    /\ mIssued' = mIssued + 1
    /\ calData' = dev
    /\ newScale' = IF PollSeen(page, newScale) = JsString("")
                   THEN dev.current_scale ELSE newScale
    /\ newOffset' = IF PollSeen(page, newOffset) = JsString("")
                    THEN dev.current_offset ELSE newOffset
    /\ simulatedWeight' = SimulateWeight(JsString(rawSim), newScale', newOffset')
    /\ mChart' = EditChart(mIssued + 1).data
    /\ mLabels' = EditChart(mIssued + 1).labels
    /\ UNCHANGED <<page, rawSim, message, requests>>
    /\ UNCHANGED <<mTab, mInst, mPending, mDestroyed>>
    /\ UNCHANGED <<pollVars, calVars, homeVars>>

\* The Refresh button: fetchCalibration() of the current render.
RefreshCalibration ==
    /\ mIssued < MaxTicks
    /\ mIssued' = mIssued + 1
    /\ requests' = requests \cup {NewRequest("fetch")}
    /\ UNCHANGED <<page, calData, newScale, newOffset, rawSim, simulatedWeight,
                   message>>
    /\ UNCHANGED <<mTab, mInst, mPending, mChart, mLabels, mDestroyed>>
    /\ UNCHANGED <<pollVars, calVars, homeVars>>

\* handleTare: the tare request is sent.
HandleTare ==
    /\ mIssued < MaxTicks
    /\ mIssued' = mIssued + 1
    /\ requests' = requests \cup {NewRequest("tare")}
    /\ UNCHANGED <<page, calData, newScale, newOffset, rawSim, simulatedWeight,
                   message>>
    /\ UNCHANGED <<mTab, mInst, mPending, mChart, mLabels, mDestroyed>>
    /\ UNCHANGED <<pollVars, calVars, homeVars>>

\* handleSetCalibration: a scale that parses to 0 is refused with a message,
\* any other is sent.
HandleSetCalibration ==
    /\ IF InvalidScale(newScale)
       THEN /\ message' = "Invalid scale value"
            /\ UNCHANGED <<mIssued, requests>>
       ELSE /\ mIssued < MaxTicks
            /\ mIssued' = mIssued + 1
            /\ requests' = requests \cup {NewRequest("set_calibration")}
            /\ UNCHANGED message
    /\ UNCHANGED <<page, calData, newScale, newOffset, rawSim, simulatedWeight>>
    /\ UNCHANGED <<mTab, mInst, mPending, mChart, mLabels, mDestroyed>>
    /\ UNCHANGED <<pollVars, calVars, homeVars>>

\* handleSaveCalibration: the save request is sent.
HandleSaveCalibration ==
    /\ mIssued < MaxTicks
    /\ mIssued' = mIssued + 1
    /\ requests' = requests \cup {NewRequest("save")}
    /\ UNCHANGED <<page, calData, newScale, newOffset, rawSim, simulatedWeight,
                   message>>
    /\ UNCHANGED <<mTab, mInst, mPending, mChart, mLabels, mDestroyed>>
    /\ UNCHANGED <<pollVars, calVars, homeVars>>

\* .then of a tare, set_calibration or save request: the device's text is
\* shown; after tare and set_calibration fetchCalibration() is called.
CommandResponse(c) ==
    /\ c \in requests /\ c.kind \in {"tare", "set_calibration", "save"}
    /\ message' = "OK"
    /\ requests' = IF c.kind = "save"
                   THEN requests \ {c}
                   ELSE (requests \ {c}) \cup {[c EXCEPT !.kind = "fetch"]}
    /\ UNCHANGED <<page, calData, newScale, newOffset, rawSim, simulatedWeight>>
    /\ UNCHANGED <<pollVars, mainVars, calVars, homeVars>>

\* .then of a fetchCalibration() called by a handler.
FetchResponse(c, dev) ==
    /\ c \in requests /\ c.kind = "fetch"
    /\ requests' = requests \ {c}
    /\ calData' = dev
    /\ newScale' = IF c.fillScale THEN dev.current_scale ELSE newScale
    /\ newOffset' = IF c.fillOffset THEN dev.current_offset ELSE newOffset
    /\ simulatedWeight' = SimulateWeight(JsString(rawSim), newScale', newOffset')
    /\ mChart' = EditChart(c.id).data
    /\ mLabels' = EditChart(c.id).labels
    /\ UNCHANGED <<page, rawSim, message>>
    /\ UNCHANGED <<mTab, mInst, mPending, mIssued, mDestroyed>>
    /\ UNCHANGED <<pollVars, calVars, homeVars>>

\* .catch of a request of a handler.
RequestFails(c) ==
    /\ c \in requests
    /\ requests' = requests \ {c}
    /\ UNCHANGED <<page, calData, newScale, newOffset, rawSim, simulatedWeight,
                   message>>
    /\ UNCHANGED <<pollVars, mainVars, calVars, homeVars>>

----------------------------------------------------------------------------
\* HomePage: status poll every 5 s and the Refresh Data button.

\* What the device answers to /api/status and to /espnow_weight_real: weight
\* and battery (in tenths of a volt), each present or absent.
HomeData ==
    {[weight |-> w, battery |-> b] :
        w \in {Null, Some(5)}, b \in {Null, Some(30), Some(31)}}

\* data.battery < 3.1 (false for an absent battery: undefined < 3.1)
IsLow(d) == d.battery # Null /\ Val(d.battery) < LOW_BATTERY

\* {scaleData.weight !== undefined && (... Measurement Data ...)}
MeasurementShown == scaleData.weight # Null

\* Status: {statusIcon === 'green' ? 'Normal' : 'Low Battery'}
StatusText == IF statusIcon = "green" THEN "Normal" ELSE "Low Battery"

\* setInterval callback: fetch('/api/status'), every 5000 ms.
HomeTick ==
    /\ hIssued < MaxTicks
    /\ hIssued' = hIssued + 1
    /\ hPending' = hPending \cup {[id |-> hIssued + 1, kind |-> "status"]}
    /\ UNCHANGED <<scaleData, statusIcon>>
    /\ UNCHANGED <<pollVars, mainVars, calVars, editVars>>

\* onClick of Refresh Data: fetch('/espnow_weight_real').
HomeRefresh ==
    /\ hIssued < MaxTicks
    /\ hIssued' = hIssued + 1
    /\ hPending' = hPending \cup {[id |-> hIssued + 1, kind |-> "refresh"]}
    /\ UNCHANGED <<scaleData, statusIcon>>
    /\ UNCHANGED <<pollVars, mainVars, calVars, editVars>>

\* .then of a status poll: the icon and the data are set together.
HomeStatusResponse(c, d) ==
    /\ c \in hPending /\ c.kind = "status"
    /\ hPending' = hPending \ {c}
    /\ statusIcon' = IF IsLow(d) THEN "red" ELSE "green"
    /\ scaleData' = d
    /\ UNCHANGED hIssued
    /\ UNCHANGED <<pollVars, mainVars, calVars, editVars>>

\* .then of a refresh: the data alone is set.
HomeRefreshResponse(c, d) ==
    /\ c \in hPending /\ c.kind = "refresh"
    /\ hPending' = hPending \ {c}
    /\ scaleData' = d
    /\ UNCHANGED <<statusIcon, hIssued>>
    /\ UNCHANGED <<pollVars, mainVars, calVars, editVars>>

\* .catch of either request.
HomeFails(c) ==
    /\ c \in hPending
    /\ hPending' = hPending \ {c}
    /\ UNCHANGED <<scaleData, statusIcon, hIssued>>
    /\ UNCHANGED <<pollVars, mainVars, calVars, editVars>>

----------------------------------------------------------------------------
InitPoll ==
    /\ activeTab = "home"
    /\ inst = 0
    /\ inProgress = FALSE
    /\ pending = {}
    /\ started = 0
    /\ dropped = 0
    /\ data = Null
    /\ timestamp = 0
    /\ clock = 0
    /\ buffer = <<>>
    /\ meanRaw = Null

InitMain ==
    /\ mTab = "home"
    /\ mInst = 0
    /\ mPending = {}
    /\ mIssued = 0
    /\ mChart = <<>>
    /\ mLabels = <<>>
    /\ mDestroyed = <<>>

InitCal ==
    /\ zeroWeight = ""
    /\ calPoints = <<>>
    /\ pointRaw = ""
    /\ pointActual = ""
    /\ fitResults = Null
    /\ logPlotData = <<>>
    /\ lastOp = Op("mount")

\* The edit page as mounted.
InitEditFields ==
    /\ calData = [current_scale |-> JsString(""), current_offset |-> JsString("")]
    /\ newScale = JsString("")
    /\ newOffset = JsString("")
    /\ rawSim = ""
    /\ simulatedWeight = SimulateWeight(JsString(""), JsString(""), JsString(""))
    /\ message = ""
    /\ requests = {}

\* HomePage as mounted.
InitHome ==
    /\ scaleData = [weight |-> Null, battery |-> Null]
    /\ statusIcon = "green"
    /\ hPending = {}
    /\ hIssued = 0

Init ==
    /\ InitPoll /\ InitMain /\ InitCal /\ InitHome
    /\ page = "CalibratePage" /\ InitEditFields

\* One of the two edit pages has just been mounted.
InitEdit ==
    /\ InitPoll /\ InitCal /\ InitHome
    /\ page \in EditPages
    /\ InitEditFields
    /\ mTab = "calibrate"
    /\ mInst = 1
    /\ mPending = {}
    /\ mIssued = 0
    /\ mChart = <<>>
    /\ mLabels = <<>>
    /\ mDestroyed = <<>>

NextPoll ==
    \/ Tick
    \/ \E c \in pending, f \in Fields, d \in Deltas(activeTab) : Resolve(c, f, d)
    \/ \E c \in pending : Reject(c)
    \/ \E c \in pending : SettleOrphan(c)
    \/ \E tab \in Tabs : SetActiveTab(tab)

SpecPoll == Init /\ [][NextPoll]_vars

\* The hook under a timer that keeps ticking and a device whose every call
\* eventually settles; responses carry one value or none, and arrive at once
\* or after more than the window.
LiveFields == {Null, Some(10)}
LiveDeltas(tab) == {0, Window(tab) + 1}

SettleMounted ==
    \E c \in pending :
        \/ \E f \in LiveFields, d \in LiveDeltas(activeTab) : Resolve(c, f, d)
        \/ Reject(c)

NextPollLive ==
    \/ Tick
    \/ \E c \in pending, f \in LiveFields, d \in LiveDeltas(activeTab) :
           Resolve(c, f, d)
    \/ \E c \in pending : Reject(c)
    \/ \E c \in pending : SettleOrphan(c)
    \/ \E tab \in Tabs : SetActiveTab(tab)

SpecPollLive ==
    /\ Init
    /\ [][NextPollLive]_vars
    /\ WF_vars(Tick)
    /\ WF_vars(SettleMounted)

NextMain ==
    \/ MainTick
    \/ ManualFetchCalibration
    \/ \E c \in mPending : MainResponse(c)
    \/ \E c \in mPending : MainOrphanResponse(c)
    \/ \E c \in mPending : MainDrop(c)
    \/ \E tab \in MainTabs : MainSetActiveTab(tab)

SpecMain == Init /\ [][NextMain]_vars

\* A polling page of main.jsx that has been mounted for a while: 19 responses
\* were handled in the order of their requests (named -18 .. 0) and none is
\* outstanding.
Handled == [i \in 1 .. CHART_CAP - 1 |-> i - (CHART_CAP - 1)]

InitChart ==
    /\ InitPoll /\ InitCal /\ InitHome
    /\ page = "CalibratePage" /\ InitEditFields
    /\ mTab \in MainPollTabs
    /\ mInst = 1
    /\ mPending = {}
    /\ mIssued = 0
    /\ mChart = Handled
    /\ mLabels = Handled
    /\ mDestroyed = <<>>

SpecChart == InitChart /\ [][NextMain]_vars

NextEdit ==
    \/ \E t \in ScaleTexts : SetNewScale(t)
    \/ \E t \in OffsetTexts : SetNewOffset(t)
    \/ \E t \in RawSimTexts : SetRawSim(t)
    \/ \E dev \in DeviceData : PollResponse(dev)
    \/ RefreshCalibration
    \/ HandleTare
    \/ HandleSetCalibration
    \/ HandleSaveCalibration
    \/ \E c \in requests : CommandResponse(c)
    \/ \E c \in requests, dev \in DeviceData : FetchResponse(c, dev)
    \/ \E c \in requests : RequestFails(c)

SpecEdit == InitEdit /\ [][NextEdit]_vars

\* The edit fields under typing, periodic polls and handleSetCalibration
\* alone.
NextEditSet ==
    \/ \E t \in ScaleTexts : SetNewScale(t)
    \/ \E t \in OffsetTexts : SetNewOffset(t)
    \/ \E dev \in DeviceData : PollResponse(dev)
    \/ HandleSetCalibration
    \/ \E c \in requests : CommandResponse(c)
    \/ \E c \in requests, dev \in DeviceData : FetchResponse(c, dev)
    \/ \E c \in requests : RequestFails(c)

SpecEditSet == InitEdit /\ [][NextEditSet]_vars

NextHome ==
    \/ HomeTick
    \/ HomeRefresh
    \/ \E c \in hPending, d \in HomeData : HomeStatusResponse(c, d)
    \/ \E c \in hPending, d \in HomeData : HomeRefreshResponse(c, d)
    \/ \E c \in hPending : HomeFails(c)

SpecHome == Init /\ [][NextHome]_vars

NextCal ==
    \/ \E s \in ZeroStrings : SetZeroWeight(s)
    \/ \E in \in AddInputs : AddCalPoint(in[1], in[2])
    \/ \E i \in RemoveIndexes : RemoveCalPoint(i)

SpecCal == Init /\ [][NextCal]_vars

\* The point list under addCalPoint and removeCalPoint alone, the zero weight
\* input left as mounted (neither handler's effect on calPoints reads it).
NextCalList ==
    \/ \E in \in AddInputs : AddCalPoint(in[1], in[2])
    \/ \E i \in RemoveIndexes : RemoveCalPoint(i)

SpecCalList == Init /\ [][NextCalList]_vars

\* The point list and its fit under points typed from the wider range of
\* readings.
NextFit ==
    \/ \E r \in FitRawStrings, a \in FitActualStrings : AddCalPoint(r, a)
    \/ \E i \in RemoveIndexes : RemoveCalPoint(i)

SpecFit == Init /\ [][NextFit]_vars

----------------------------------------------------------------------------
\* Notions the claims are stated with.

\* The points whose actual differs from the zero weight (all of them when the
\* zero weight is unset).
Usable(pts, zero) ==
    SelectSeq(pts, LAMBDA p : StrictNe(p.actual, ParseFloat(zero)))

\* The sum of the values held in the buffer.
BufferSum == Sum([i \in 1..Len(buffer) |-> Val(buffer[i].value)])

\* s without the element at position index, counted from 0.
WithoutIndex(s, index) == SubSeq(s, 1, index) \o SubSeq(s, index + 2, Len(s))

InRange(index, s) == index \in 0 .. Len(s) - 1

\* The texts that are a finite number.
FiniteTexts == {"0", "1"}

----------------------------------------------------------------------------
\* C1: every usePolling instance has at most one apiCall in flight at any
\* time, and no step taken while the mounted instance's call is in flight (a
\* tick, which is dropped, or the settlement of the call) starts a call.
C1_AtMostOneInFlight ==
    /\ [](\A c \in pending : Cardinality(PendingOf(c.inst)) <= 1)
    /\ [][PendingOf(inst) # {} => started' = started]_vars

\* A tick was dropped, an earlier call has settled and a later tick has
\* started the call now in flight.
C1_Witness ==
    /\ dropped >= 1
    /\ started >= 2
    /\ Cardinality(PendingOf(inst)) = 1

\* C2: the pollers of main.jsx never have two poll requests of the mounted
\* page outstanding at once, and the chart holds the samples in the order in
\* which their requests were issued.
C2_MainPollsNeverOverlap ==
    /\ Cardinality(MainPendingOf(mInst)) <= 1
    /\ \A i, j \in 1..Len(mChart) : i < j => mChart[i] < mChart[j]

\* C3: the fit is computed from exactly the points whose actual differs from
\* the zero weight: whenever those points admit a fit (2 or more, denominator
\* not 0), the reported fit is the fit of those points.
C3_FitFromUsablePoints ==
    LET U == Usable(calPoints, zeroWeight)
    IN  (Len(U) >= 2 /\ Denominator(U) # 0) => fitResults = Some(ProposedFit(U))

\* C4: whenever fewer than 2 points have an actual that differs from the zero
\* weight, no fit result is reported.
C4_NoFitBelowTwoUsable ==
    Len(Usable(calPoints, zeroWeight)) < 2 => fitResults = Null

\* C5: whenever the list holds 2 or more points and the regression
\* denominator is 0 (all raw values equal), no scale and offset are reported.
C5_DegenerateReportsNoFit ==
    (Len(calPoints) >= 2 /\ Denominator(calPoints) = 0) =>
        (fitResults = Null \/ Val(fitResults).scale.kind # "num")

\* C6: no retained sample is older than the window relative to the newest
\* sample, and an insertion keeps every earlier sample that is at most the
\* window old (one exactly the window old included).
C6_WindowRetention ==
    /\ [](\A i \in 1..Len(buffer) :
             buffer[Len(buffer)].time - buffer[i].time <= Window(activeTab))
    /\ [][(buffer' # buffer /\ buffer' # <<>>) =>
             \A i \in 1..Len(buffer) :
                 clock' - buffer[i].time <= Window(activeTab)
                     => \E j \in 1..Len(buffer') : buffer'[j] = buffer[i]]_vars

\* The buffer holds, after an insertion, a sample exactly the window old.
C6_Witness ==
    /\ Len(buffer) >= 2
    /\ clock = buffer[Len(buffer)].time
    /\ buffer[Len(buffer)].time - buffer[1].time = Window(activeTab)

\* C7: removeCalPoint(index) with an index of the list yields the list
\* without the point at that position, the others unchanged and in order.
C7_RemoveExactlyIndexed ==
    [][\A i \in RemoveIndexes :
          (RemoveCalPoint(i) /\ InRange(i, calPoints))
              => calPoints' = WithoutIndex(calPoints, i)]_vars

\* A point was removed and two different points are left.
C7_Witness ==
    /\ lastOp.kind = "remove"
    /\ Len(calPoints) = 2
    /\ calPoints[1] # calPoints[2]

\* C8: addCalPoint appends exactly the point {raw, actual} when both inputs
\* hold a finite number and leaves the list unchanged when one is missing or
\* not a number; every point of the list has a finite raw and a finite actual.
C8_AddAppendsOrRejects ==
    /\ [](\A i \in 1..Len(calPoints) :
             ~IsNaN(calPoints[i].raw) /\ ~IsNaN(calPoints[i].actual))
    /\ [][\A in \in AddInputs :
             AddCalPoint(in[1], in[2]) =>
                 IF in[1] \in FiniteTexts /\ in[2] \in FiniteTexts
                 THEN calPoints' = Append(calPoints, [raw |-> ParseFloat(in[1]),
                                                      actual |-> ParseFloat(in[2])])
                 ELSE calPoints' = calPoints]_vars

\* An add with the actual missing was rejected (the raw input still holds
\* what was typed) after an add was accepted.
C8_Witness ==
    /\ lastOp.kind = "addRejected"
    /\ pointRaw # "" /\ pointActual = ""
    /\ Len(calPoints) >= 1

C10_MeanIsExactMean ==
    (activeTab = "advCalib" /\ Len(buffer) > 0) =>
        (meanRaw # Null /\ Val(meanRaw) * Len(buffer) = 1000 * BufferSum)

\* C10 as amended: with samples in the 10-second buffer, the reported mean is
\* sum / count of the retained samples rounded to 3 decimals (within half a
\* thousandth of it).
C10_MeanIsRoundedMean ==
    (activeTab = "advCalib" /\ Len(buffer) > 0) =>
        (meanRaw # Null
         /\ 2 * Abs(Val(meanRaw) * Len(buffer) - 1000 * BufferSum) <= Len(buffer))

\* The values 10, 20, 30 are retained and the mean reported is 20.000.
C10_Witness ==
    /\ activeTab = "advCalib"
    /\ Len(buffer) = 3
    /\ {Val(buffer[i].value) : i \in 1..3} = {10, 20, 30}
    /\ meanRaw = Some(20000)

\* C11: while the 10-second buffer of the advanced calibration page is empty
\* the mean is null and displayed as 'Calculating...', never a number, and
\* whenever a step sets the mean to a number the buffer it was computed from
\* holds at least one sample (the division is by a count of 1 or more).
C11_EmptyBufferNoMean ==
    /\ []((activeTab = "advCalib" /\ buffer = <<>>) =>
             (meanRaw = Null /\ MeanDisplay(meanRaw).kind = "Calculating..."))
    /\ [][(activeTab' = "advCalib" /\ meanRaw' # meanRaw /\ meanRaw' # Null)
             => Len(buffer') > 0]_vars

\* The advanced calibration page has handled a response that carried no
\* raw_value: the buffer is still empty.
C11_Witness ==
    /\ activeTab = "advCalib"
    /\ data # Null
    /\ buffer = <<>>
    /\ MeanDisplay(meanRaw).kind = "Calculating..."

\* The calibrations the round trip is tried with: scale = p / q and
\* offset = r / q, as <<p, q, r>>.
FitLines ==
    {<<p, q, r>> : p \in {-2, -1, 1, 2, 3}, q \in {1, 2, 3}, r \in -3 .. 3}

\* Every point satisfies raw = actual * scale + offset.
OnLine(pts, l) ==
    \A i \in 1..Len(pts) :
        l[2] * Val(pts[i].raw) = l[1] * Val(pts[i].actual) + l[3]

DistinctRaws(pts) ==
    \A i, j \in 1..Len(pts) : i # j => pts[i].raw # pts[j].raw

\* C12 as claimed: for 2 or more points with distinct raw values generated
\* by raw = actual * scale + offset, scale # 0, the fit reports exactly that
\* scale and that offset.
C12_FitRecoversExactly ==
    \A l \in FitLines :
        (Len(calPoints) >= 2 /\ DistinctRaws(calPoints) /\ OnLine(calPoints, l))
            => /\ fitResults # Null
               /\ Val(fitResults).scale.kind = "num"
               /\ Val(fitResults).scale.milli * l[2] = 1000 * l[1]
               /\ Val(fitResults).offset.kind = "num"
               /\ Val(fitResults).offset.milli * l[2] = 1000 * l[3]

\* C12 as amended: for such points the fit reports that scale and that offset
\* rounded to 3 decimals (each within half a thousandth of the original).
C12_FitRecoversRounded ==
    \A l \in FitLines :
        (Len(calPoints) >= 2 /\ DistinctRaws(calPoints) /\ OnLine(calPoints, l))
            => /\ fitResults # Null
               /\ Val(fitResults).scale.kind = "num"
               /\ 2 * Abs(Val(fitResults).scale.milli * l[2] - 1000 * l[1]) <= l[2]
               /\ Val(fitResults).offset.kind = "num"
               /\ 2 * Abs(Val(fitResults).offset.milli * l[2] - 1000 * l[3]) <= l[2]

\* Three points generated with scale -1 and offset 3 have been added in an
\* order other than that of their raw values, and the fit reports scale
\* -1.000 and offset 3.000.
C12_Witness ==
    /\ Len(calPoints) = 3
    /\ DistinctRaws(calPoints)
    /\ OnLine(calPoints, <<-1, 1, 3>>)
    /\ Val(calPoints[1].raw) < Val(calPoints[2].raw)
    /\ Val(calPoints[3].raw) < Val(calPoints[2].raw)
    /\ fitResults = Some([scale |-> Shown("num", -1000),
                          offset |-> Shown("num", 3000)])

\* C13: once a polling page of main.jsx is unmounted, nothing more is pushed
\* into its chart and its chart is not updated, a request in flight at the
\* unmount included.
C13_NoInsertAfterStop ==
    mDestroyed = <<>>

\* s is t without some (possibly none) of its first elements.
IsSuffix(s, t) ==
    /\ Len(s) <= Len(t)
    /\ s = SubSeq(t, Len(t) - Len(s) + 1, Len(t))

\* C14: every insertion into the time-windowed buffer of a mounted page
\* yields a contiguous suffix of the previous buffer followed by the new
\* sample, and that suffix ends with the new sample: only the oldest samples
\* are evicted, nothing is reordered, the new sample is always retained.
C14_EvictsOldestOnly ==
    [][\A c \in pending, f \in Fields, d \in Deltas(activeTab) :
          (Resolve(c, f, d) /\ Inserts(activeTab, f)) =>
              LET new == [time |-> clock', value |-> f]
              IN  /\ IsSuffix(buffer', Append(buffer, new))
                  /\ buffer' # <<>>
                  /\ buffer'[Len(buffer')] = new]_vars

\* Three samples were inserted by the first mounted page, the third insertion
\* evicted the first sample and kept the second.
C14_Witness ==
    /\ activeTab = "basicCalib"
    /\ inst = 1
    /\ clock > 2 * (Window(activeTab) + 1)
    /\ Len(buffer) = 2
    /\ buffer[2].time = clock

\* C15: the .then and the .catch of usePolling both clear the in-progress
\* guard, a rejected call leaves data and timestamp unchanged, and, with
\* every call settling and the timer ticking, a mounted polling page that has
\* issued k calls issues another one (or is unmounted first): polling never
\* stalls after a failed or a successful poll.
C15_GuardClearedNeverStalls ==
    /\ [][\A c \in pending :
             /\ Reject(c) =>
                    (~inProgress' /\ data' = data /\ timestamp' = timestamp)
             /\ \A f \in LiveFields, d \in LiveDeltas(activeTab) :
                    Resolve(c, f, d) => ~inProgress']_vars
    /\ \A n \in 1 .. MaxMounts, k \in 0 .. MaxCalls - 1 :
          (inst = n /\ activeTab \in PollTabs /\ started = k)
              ~> (started > k \/ inst # n)

\* The first call of the first polling page was rejected (no data was ever
\* set) and a later tick has issued the call now in flight.
C15_Witness ==
    /\ inst = 1
    /\ data = Null
    /\ started = 2
    /\ Cardinality(PendingOf(inst)) = 1
    /\ inProgress

\* The last n elements of s (all of s when it has no more than n).
LastN(s, n) == IF Len(s) <= n THEN s ELSE SubSeq(s, Len(s) - n + 1, Len(s))

\* C16: in main.jsx the labels array and the data array of the chart always
\* have the same length, never above 20, and every handled response leaves
\* in each the last 20 entries of the array followed by the new entry: the
\* 21st push drops the oldest entry of both, and the chart holds the 20
\* values received last, in arrival order.
C16_ChartCapped ==
    /\ [](Len(mLabels) = Len(mChart) /\ Len(mChart) <= CHART_CAP)
    /\ [][\A c \in mPending :
             MainResponse(c) =>
                 /\ mChart' = LastN(Append(mChart, c.id), CHART_CAP)
                 /\ mLabels' = LastN(Append(mLabels, c.id), CHART_CAP)]_vars

\* The chart holds 20 entries after 22 pushes: the two oldest were dropped.
C16_Witness ==
    /\ Len(mChart) = CHART_CAP
    /\ Len(mLabels) = CHART_CAP
    /\ mChart[1] = Handled[3]
    /\ mChart[CHART_CAP] \in 1 .. MaxTicks

\* C17: whenever the list holds 2 or more points whose raw values are not all
\* equal (denominator not 0) and the fitted slope is exactly 0, the fit
\* reports 'N/A' for the scale and for the offset, and 1 / slope is not
\* evaluated.
C17_ZeroSlopeReportsNA ==
    (Len(calPoints) >= 2 /\ Denominator(calPoints) # 0 /\ SlopeNum(calPoints) = 0)
        => fitResults = Some([scale  |-> Shown("N/A", 0),
                              offset |-> Shown("N/A", 0)])

\* Three points with different raw values and the same actual weight 3 are
\* held, and the fit shows 'N/A'.
C17_Witness ==
    /\ Len(calPoints) = 3
    /\ DistinctRaws(calPoints)
    /\ \A i \in 1..3 : calPoints[i].actual = Num(3)
    /\ fitResults # Null
    /\ Val(fitResults).scale.kind = "N/A"
    /\ Val(fitResults).offset.kind = "N/A"

\* C18: whenever the simulator input, the scale field and the offset field
\* all hold numbers (typed, or copied from the device) and the scale is not
\* 0, the simulated weight is (raw - offset) / scale (as shown, to 3
\* decimals); raw 0 and offset 0 included.
C18_SimulatesEveryNumericInput ==
    LET r  == ParseFloat(rawSim)
        sc == ParseFloatOf(newScale)
        o  == ParseFloatOf(newOffset)
    IN  (~IsNaN(r) /\ ~IsNaN(sc) /\ ~IsNaN(o) /\ sc # Num(0)) =>
            /\ simulatedWeight # Null
            /\ 2 * Abs(Val(simulatedWeight) * Val(sc) - 1000 * (Val(r) - Val(o)))
                   <= Abs(Val(sc))

\* C19: handleSetCalibration with a scale field that parses to 0 sends no
\* request, sets the message to 'Invalid scale value', calls no
\* fetchCalibration, and leaves the edit fields, the calibration data shown,
\* the simulator and the chart as they were.
C19_ZeroScaleRefused ==
    [][(HandleSetCalibration /\ ParseFloatOf(newScale) = Num(0)) =>
          /\ message' = "Invalid scale value"
          /\ requests' = requests
          /\ mIssued' = mIssued
          /\ UNCHANGED <<page, calData, newScale, newOffset, rawSim,
                         simulatedWeight>>
          /\ UNCHANGED <<mChart, mLabels, mTab, mInst, mPending, mDestroyed>>
          /\ UNCHANGED <<pollVars, calVars, homeVars>>]_vars

\* A scale of 0.0 typed over the values received from the device has been
\* refused.
C19_Witness ==
    /\ message = "Invalid scale value"
    /\ newScale = JsString("0.0")
    /\ newOffset.type = "number"
    /\ calData \in DeviceData
    /\ requests = {}

\* C20: the handler of a periodic poll response writes the device's scale or
\* offset into an edit field only while that field is empty; a field the
\* operator has filled keeps its number, on CalibratePage as on
\* BasicCalibrationPage.
C20_PollKeepsEditedFields ==
    [][\A dev \in DeviceData :
          PollResponse(dev) =>
              /\ newScale # JsString("")
                    => ParseFloatOf(newScale') = ParseFloatOf(newScale)
              /\ newOffset # JsString("")
                    => ParseFloatOf(newOffset') = ParseFloatOf(newOffset)]_vars

\* s is an in-order subsequence of t.
RECURSIVE IsSubsequence(_, _)
IsSubsequence(s, t) ==
    IF s = <<>> THEN TRUE
    ELSE IF t = <<>> THEN FALSE
    ELSE IF Head(s) = Head(t) THEN IsSubsequence(Tail(s), Tail(t))
    ELSE IsSubsequence(s, Tail(t))

\* C21: after any sequence of addCalPoint, removeCalPoint and zero-weight
\* changes the log-plot list is an in-order subsequence of the calibration
\* point list: it holds no point that is no longer in the list.
C21_PlotFollowsPointList ==
    IsSubsequence(logPlotData, calPoints)

\* C22: whenever the Home page displays measurement data, the status shows
\* 'Low Battery' if and only if the displayed battery value is below 3.1.
C22_StatusMatchesShownBattery ==
    MeasurementShown => (StatusText = "Low Battery" <=> IsLow(scaleData))

====
